---- MODULE Spec2Model ----
(***************************************************************************)
(* The trading journal of src/tradejournal/src/main.js: the three SQLite   *)
(* tables (profile, accounts, trades), the page's global variables, the    *)
(* asynchronous handlers (page load, profile / account / trade form        *)
(* submission, account selection) suspended on their store calls, and the  *)
(* statistics shown by updateStats.                                        *)
(*                                                                         *)
(* One step of the model is one turn of the JavaScript event loop: either a*)
(* user event, run up to the handler's first store call, or the completion *)
(* of one outstanding store call (the engine executes the statement and the*)
(* awaiting handler runs on to its next store call or to its end).         *)
(***************************************************************************)
EXTENDS Integers, Sequences, FiniteSets, TLC

(***************************************************************************)
(* Bounds of the model.                                                    *)
(***************************************************************************)
MaxAccounts == 2      \* rows the accounts table may grow to
MaxTrades   == 2      \* rows the trades table may grow to
MaxTasks    == 2      \* handlers suspended on a store call at one time
MaxFailures == 1      \* store calls the engine may fail in one run
MaxReloads  == 1      \* page reloads in one run
MaxStatLen  == 3      \* longest trade collection of the aggregator runs

(***************************************************************************)
(* Program constants.                                                      *)
(***************************************************************************)
ProfileId == 1        \* VALUES (1, ...) and WHERE id = 1
TestId    == 999      \* VALUES (999, ...) and WHERE id = 999

(***************************************************************************)
(* JavaScript values.  A number, NaN and null are records of one shape so  *)
(* that they can be compared; null and undefined objects are the empty     *)
(* sequence and an object o is <<o>>.                                      *)
(***************************************************************************)
Num(n) == [k |-> "num", v |-> n]
NaN    == [k |-> "nan", v |-> 0]
Null   == [k |-> "null", v |-> 0]

\* the number a form text denotes, for the texts the forms below use
Digits == ("0" :> 0) @@ ("1" :> 1) @@ ("2" :> 2) @@ ("3" :> 3) @@ ("50" :> 50)
          @@ ("-20" :> -20) @@ ("1000" :> 1000)

parseFloat(s) == IF s \in DOMAIN Digits THEN Num(Digits[s]) ELSE NaN

\* ToBoolean of a number value and of a string
Falsy(x) == x.k \in {"nan", "null"} \/ (x.k = "num" /\ x.v = 0)
OrNum(x, d) == IF Falsy(x) THEN d ELSE x             \* x || d, numbers
OrStr(s, d) == IF s = "" THEN d ELSE s                \* s || d, strings

\* a statement parameter as the engine receives it: the call is serialised
\* as JSON, in which NaN is written null
bind(x) == IF x.k = "nan" THEN Null ELSE x

\* new Date(ms).toISOString(), two digits of it: zero padded, fixed width
toISOString(ms) == <<ms \div 10, ms % 10>>
\* the instant a date text denotes
dateTime(d) == 10 * d[1] + d[2]
\* comparison of two date texts as SQLite compares TEXT: character by
\* character
TextLeq(a, b) == a[1] < b[1] \/ (a[1] = b[1] /\ a[2] <= b[2])

\* Number.prototype.toFixed of the fraction num/den (den > 0) with `digits`
\* decimals, as the integer count of units of 10^-digits (ties round up)
Pow10(d) == IF d = 0 THEN 1 ELSE IF d = 1 THEN 10 ELSE 100
toFixedOf(num, den, digits) == (2 * num * Pow10(digits) + den) \div (2 * den)

(***************************************************************************)
(* What the user may type into the three forms.                            *)
(***************************************************************************)
ProfileInputs ==
    { [userName |-> "Ann", currency |-> "USD"],
      [userName |-> "",    currency |-> "USD"] }

\* the wider choice of the runs that follow the profile alone
ProfileChoices ==
    ProfileInputs \cup { [userName |-> "Bob", currency |-> "EUR"],
                         [userName |-> "Ann", currency |-> "EUR"] }

MainForm ==
    [accountName |-> "Main", accountType |-> "live", initialBalance |-> "1000",
       broker |-> "X", leverage |-> "1:50", instruments |-> ""]
AccountForms == {MainForm}
\* the wider choice of the runs that follow the accounts and their trades:
\* the balance left empty, and a balance of zero
AccountChoices ==
    {MainForm, [MainForm EXCEPT !.accountName = "Demo", !.initialBalance = ""],
     [MainForm EXCEPT !.accountName = "Zero", !.initialBalance = "0"]}

\* every field supplied, none of them zero
FullForm ==
    [symbol |-> "EURUSD", tradeType |-> "buy", entryPrice |-> "1", exitPrice |-> "2",
     takeProfit |-> "3", stopLoss |-> "1", lotSize |-> "1", volume |-> "2",
     profit |-> "50", commission |-> "1", rrRatio |-> "1:2", strategy |-> "trend",
     session |-> "london", duration |-> "1h"]
\* exit price, commission and the free texts left empty
OpenForm ==
    [symbol |-> "GBPUSD", tradeType |-> "sell", entryPrice |-> "2", exitPrice |-> "",
     takeProfit |-> "1", stopLoss |-> "3", lotSize |-> "1", volume |-> "1",
     profit |-> "-20", commission |-> "", rrRatio |-> "", strategy |-> "",
     session |-> "", duration |-> ""]
\* every field supplied, exit price, commission and profit being zero
ZeroForm ==
    [symbol |-> "USDJPY", tradeType |-> "buy", entryPrice |-> "1", exitPrice |-> "0",
     takeProfit |-> "2", stopLoss |-> "1", lotSize |-> "1", volume |-> "1",
     profit |-> "0", commission |-> "0", rrRatio |-> "1:1", strategy |-> "range",
     session |-> "tokyo", duration |-> "2h"]

TradeForms == {OpenForm}
\* the wider choice of the runs that follow one account's trades alone
RoundForms == {FullForm, OpenForm, ZeroForm}

\* the instants Date.now() may give at a submission (the clock may stand
\* still or be set back between two submissions)
Instants == {9, 10}

(***************************************************************************)
(* The objects the submit handlers build from the form fields.             *)
(***************************************************************************)
profileOf(f) == [name |-> f.userName, currency |-> f.currency]

\* (a fault: the current balance started at 0)
accountFromZero(f) ==
    [name |-> f.accountName, type |-> f.accountType,
     initialBalance |-> parseFloat(f.initialBalance),
     currentBalance |-> Num(0),
     broker |-> f.broker, leverage |-> f.leverage, instruments |-> f.instruments]
accountOf(f) ==
    [name |-> f.accountName, type |-> f.accountType,
     initialBalance |-> parseFloat(f.initialBalance),
     currentBalance |-> parseFloat(f.initialBalance),
     broker |-> f.broker, leverage |-> f.leverage, instruments |-> f.instruments]

\* (a fault: || 0 in the place of || null)
exitPriceOrZero(f) == OrNum(parseFloat(f.exitPrice), Num(0))
\* exitPrice: parseFloat(...) || null
exitPriceOf(f) == OrNum(parseFloat(f.exitPrice), Null)
\* commission: parseFloat(...) || 0
commissionOf(f) == OrNum(parseFloat(f.commission), Num(0))

tradeOf(f, accountId, now) ==
    [accountId |-> accountId, symbol |-> f.symbol, type |-> f.tradeType,
     entryPrice |-> parseFloat(f.entryPrice),
     exitPrice |-> exitPriceOf(f),
     takeProfit |-> parseFloat(f.takeProfit),
     stopLoss |-> parseFloat(f.stopLoss),
     lotSize |-> parseFloat(f.lotSize),
     volume |-> parseFloat(f.volume),
     profit |-> parseFloat(f.profit),
     commission |-> commissionOf(f),
     rrRatio |-> f.rrRatio, strategy |-> f.strategy, session |-> f.session,
     duration |-> f.duration, date |-> toISOString(now)]

(***************************************************************************)
(* The statements, on the tables.  The profile table is a set of rows keyed *)
(* by id; accounts and trades are sequences in rowid order.                 *)
(***************************************************************************)
\* the id an autoincrement key gives the next row
NextId(tbl) == Len(tbl) + 1

\* INSERT OR REPLACE on a table whose primary key is id
InsertOrReplace(tbl, row) == {r \in tbl : r.id # row.id} \cup {row}

\* INSERT OR REPLACE INTO profile (...) VALUES (1, ?, ?, ?, ?, ?)
profileRow(profile) ==
    [id |-> ProfileId, name |-> profile.name, email |-> "", experience |-> "",
     currency |-> profile.currency, timezone |-> ""]

\* INSERT OR REPLACE INTO profile (...) VALUES (999, ...)
testRow ==
    [id |-> TestId, name |-> "TestUser", email |-> "test@test.com",
     experience |-> "beginner", currency |-> "USD", timezone |-> "UTC"]

\* SELECT * FROM profile WHERE id = <id>
selectProfile(tbl, id) ==
    IF \E r \in tbl : r.id = id THEN <<CHOOSE r \in tbl : r.id = id>> ELSE <<>>

\* INSERT INTO accounts (...) VALUES (?, ?, ?, ?, ?, ?, ?)
accountRow(id, account) ==
    [id |-> id, name |-> account.name, type |-> account.type,
     initial_balance |-> bind(account.initialBalance),
     current_balance |-> bind(account.currentBalance),
     broker |-> account.broker, leverage |-> account.leverage,
     instruments |-> OrStr(account.instruments, "")]

\* INSERT INTO trades (...) VALUES (?, ..., ?)
tradeRow(id, trade) ==
    [id |-> id, account_id |-> trade.accountId, symbol |-> trade.symbol,
     type |-> trade.type, entry_price |-> bind(trade.entryPrice),
     exit_price |-> bind(trade.exitPrice), take_profit |-> bind(trade.takeProfit),
     stop_loss |-> bind(trade.stopLoss), lot_size |-> bind(trade.lotSize),
     volume |-> bind(trade.volume), profit |-> bind(trade.profit),
     commission |-> bind(trade.commission), rr_ratio |-> OrStr(trade.rrRatio, ""),
     strategy |-> OrStr(trade.strategy, ""), session |-> OrStr(trade.session, ""),
     duration |-> OrStr(trade.duration, ""), date |-> trade.date]

\* saveAccount's statement carried out: the row is added under a new id
insertAccount(tbl, account) == Append(tbl, accountRow(NextId(tbl), account))
\* (a fault: INSERT OR REPLACE on a fixed id, as saveProfile has it)
replaceTrade(tbl, trade) ==
    IF tbl = <<>> THEN <<tradeRow(1, trade)>> ELSE [tbl EXCEPT ![1] = tradeRow(1, trade)]
\* saveTrade's statement carried out
insertTrade(tbl, trade) == Append(tbl, tradeRow(NextId(tbl), trade))

\* a sequence with element x put before the first element it is not below
IdLeq(a, b) == a.id <= b.id

RECURSIVE InsertDesc(_, _)
InsertDesc(x, s) ==
    IF s = <<>> THEN <<x>>
    ELSE IF IdLeq(Head(s), x) THEN <<x>> \o s
    ELSE <<Head(s)>> \o InsertDesc(x, Tail(s))

RECURSIVE SortDesc(_)
SortDesc(s) ==
    IF s = <<>> THEN <<>> ELSE InsertDesc(Head(s), SortDesc(Tail(s)))

\* (a fault: the rows in rowid order, ORDER BY id DESC left out)
ascAccounts(tbl) == tbl
\* SELECT * FROM accounts ORDER BY id DESC
selectAccounts(tbl) == SortDesc(tbl)

\* (a fault: the WHERE clause left out)
allTrades(tbl, accountId) == tbl
\* the rows of WHERE account_id = ?
whereAccount(tbl, accountId) ==
    LET Match(r) == r.account_id = accountId IN SelectSeq(tbl, Match)

\* the orders ORDER BY date DESC may give the rows of s: rows of one date
\* come in an order the engine chooses
DateDesc(s) == \A i \in 1..Len(s) : \A j \in i..Len(s) : TextLeq(s[j].date, s[i].date)
Orderings(s) ==
    LET n == Len(s)
        Perms == {p \in [1..n -> 1..n] : \A i, j \in 1..n : p[i] = p[j] => i = j}
    IN  {[i \in 1..n |-> s[p[i]]] : p \in Perms}
orderByDateDesc(s) == {o \in Orderings(s) : DateDesc(o)}

\* SELECT * FROM trades WHERE account_id = ? ORDER BY date DESC
selectTrades(tbl, accountId) == orderByDateDesc(whereAccount(tbl, accountId))

(***************************************************************************)
(* The objects the load functions make of the rows.                        *)
(***************************************************************************)
\* (a fault: the two columns taken for each other)
swappedProfile(row) == [name |-> row.currency, currency |-> row.name]
profileFromRow(row) == [name |-> row.name, currency |-> row.currency]

accountFromRow(row) ==
    [id |-> row.id, name |-> row.name, type |-> row.type,
     initialBalance |-> row.initial_balance,
     currentBalance |-> row.current_balance, broker |-> row.broker,
     leverage |-> row.leverage, instruments |-> row.instruments]

tradeFromRow(row) ==
    [id |-> row.id, accountId |-> row.account_id, symbol |-> row.symbol,
     type |-> row.type, entryPrice |-> row.entry_price, exitPrice |-> row.exit_price,
     takeProfit |-> row.take_profit, stopLoss |-> row.stop_loss,
     lotSize |-> row.lot_size, volume |-> row.volume, profit |-> row.profit,
     commission |-> row.commission, rrRatio |-> row.rr_ratio,
     strategy |-> row.strategy, session |-> row.session, duration |-> row.duration,
     date |-> row.date]

\* result.map(row => ({...}))
accountsFromRows(rows) == [i \in 1..Len(rows) |-> accountFromRow(rows[i])]
tradesFromRows(rows) == [i \in 1..Len(rows) |-> tradeFromRow(rows[i])]

\* (a fault: an id that is not loaded is taken on trust)
findOrAssume(accs, id) ==
    IF \E i \in 1..Len(accs) : accs[i].id = id
    THEN <<accs[CHOOSE i \in 1..Len(accs) : accs[i].id = id]>>
    ELSE <<[id |-> id]>>
\* accounts.find(a => a.id === id)
findAccount(accs, id) ==
    IF \E i \in 1..Len(accs) : accs[i].id = id
    THEN <<accs[CHOOSE i \in 1..Len(accs) :
                  accs[i].id = id /\ \A j \in 1..(i - 1) : accs[j].id # id]>>
    ELSE <<>>

(***************************************************************************)
(* updateStats.                                                            *)
(***************************************************************************)
\* the number a value counts as in sum + value (null counts as 0)
ToNumber(x) == IF x.k = "num" THEN x.v ELSE 0

profitOf(t) == ToNumber(t.profit)
volumeOf(t) == ToNumber(t.volume)

\* trades.reduce((sum, t) => sum + t.profit, 0)
RECURSIVE sumProfit(_)
sumProfit(s) == IF s = <<>> THEN 0 ELSE profitOf(Head(s)) + sumProfit(Tail(s))
\* trades.reduce((sum, t) => sum + t.volume, 0)
RECURSIVE sumVolume(_)
sumVolume(s) == IF s = <<>> THEN 0 ELSE volumeOf(Head(s)) + sumVolume(Tail(s))
\* (a fault: >= in the place of >)
notLoss(t) == t.profit.k = "num" /\ t.profit.v >= 0
isWin(t) == t.profit.k = "num" /\ t.profit.v > 0
\* trades.filter(t => t.profit > 0).length
winsOf(s) == Cardinality({i \in 1..Len(s) : isWin(s[i])})

\* the four texts updateStats writes, for a non-empty collection: totalPnL
\* is the currency and the amount in hundredths, winRate is in tenths of a
\* percent
statsOf(trs, profile) ==
    LET totalPnL == sumProfit(trs)
        wins == winsOf(trs)
        totalVolume == sumVolume(trs)
    IN  [totalPnL |-> <<profile.currency, toFixedOf(totalPnL, 1, 2)>>,
         className |-> IF totalPnL >= 0 THEN "value positive" ELSE "value negative",
         totalTrades |-> Len(trs),
         winRate |-> toFixedOf(wins * 100, Len(trs), 1),
         totalVolume |-> totalVolume]

\* updateStats dereferences currentProfile once the collection is not empty
updateStatsThrows(trs, prof) == Len(trs) # 0 /\ prof = <<>>

\* (a fault: no return on an empty collection; 0 / 0 shows as NaN, here -1)
updateStatsNoGuard(trs, prof, shown) ==
    IF prof = <<>> THEN shown
    ELSE IF Len(trs) = 0
    THEN <<[totalPnL |-> <<prof[1].currency, 0>>, className |-> "value positive",
            totalTrades |-> 0, winRate |-> -1, totalVolume |-> 0]>>
    ELSE <<statsOf(trs, prof[1])>>
\* what is shown after updateStats, `shown` being what was shown before
updateStats(trs, prof, shown) ==
    IF Len(trs) = 0 \/ prof = <<>> THEN shown ELSE <<statsOf(trs, prof[1])>>

(***************************************************************************)
(* What each store operation gives its caller when the engine gave r       *)
(* ("ok" or an error): "ok" if it returns normally, else the error it      *)
(* throws.                                                                 *)
(***************************************************************************)
\* saveProfile: catch (error) { ...; throw error }
saveProfileRet(r) == r
\* (a fault: saveAccount with a catch block that only logs)
saveAccountSwallows(r) == "ok"
\* saveAccount, saveTrade: no try, the rejection passes through
saveAccountRet(r) == r
saveTradeRet(r) == r
\* loadProfile, loadAccounts, loadTrades: catch, log, return
loadProfileRet(r) == "ok"
loadAccountsRet(r) == "ok"
loadTradesRet(r) == "ok"

(***************************************************************************)
(* The state.                                                              *)
(***************************************************************************)
VARIABLES
    page,            \* "fresh": script loaded; "loading": the DOMContentLoaded
                     \* handler runs; "ready": the form listeners are attached
    db,              \* "undefined" or "open"
    currentProfile,  \* <<>> (null) or <<profile>>
    currentAccount,  \* <<>> (null or undefined) or <<account>>
    accounts,        \* the loaded accounts
    trades,          \* the loaded trades
    mainApp,         \* #mainApp has the class active
    shown,           \* the four statistics texts: <<>> as the page came, or <<texts>>
    alert,           \* the alert the last step raised (alert() blocks until it
                     \* is dismissed), <<>> if none
    profileTbl,      \* table profile
    accountsTbl,     \* table accounts
    tradesTbl,       \* table trades
    tasks,           \* the handlers suspended on a store call, oldest first
    last,            \* the store operation the last step settled, with the
                     \* engine's result and what the operation gave its caller
    failures,        \* store calls failed so far
    reloads,         \* page reloads so far
    saved,           \* history: the profile of the last saveProfile that succeeded
    forms            \* history: the form each trades row was submitted with

jsVars  == <<db, currentProfile, currentAccount, accounts, trades, mainApp, shown>>
tblVars == <<profileTbl, accountsTbl, tradesTbl>>
vars == <<page, db, currentProfile, currentAccount, accounts, trades, mainApp, shown,
          alert, profileTbl, accountsTbl, tradesTbl, tasks, last, failures, reloads,
          saved, forms>>

Task(pc, data) == [pc |-> pc, data |-> data, orphan |-> FALSE]
NoData == <<>>
\* operation op, awaited at `by`, got `engine` from the engine and gave its
\* caller `ret`; `value` is what loadProfile returned, and the account id
\* loadTrades was called with
Settled(op, by, engine, ret, value) ==
    [op |-> op, by |-> by, engine |-> engine, ret |-> ret, value |-> value]
NoOp == Settled("none", "none", "ok", "ok", <<>>)

Init ==
    /\ page = "fresh"
    /\ db = "undefined"
    /\ currentProfile = <<>>
    /\ currentAccount = <<>>
    /\ accounts = <<>>
    /\ trades = <<>>
    /\ mainApp = FALSE
    /\ shown = <<>>
    /\ alert = <<>>
    /\ profileTbl = {}
    /\ accountsTbl = <<>>
    /\ tradesTbl = <<>>
    /\ tasks = <<>>
    /\ last = NoOp
    /\ failures = 0
    /\ reloads = 0
    /\ saved = <<>>
    /\ forms = <<>>

\* the results the engine may give a call: "ok", or the error e
Results(e) == {"ok"} \cup (IF failures < MaxFailures THEN {e} ELSE {})
Count(r) == failures' = IF r = "ok" THEN failures ELSE failures + 1

Remove(i) == [j \in 1..(Len(tasks) - 1) |-> IF j < i THEN tasks[j] ELSE tasks[j + 1]]
\* (a fault: the next call issued twice, a retry on top of the first)
GotoTwice(i, pc, data) == Append([tasks EXCEPT ![i] = Task(pc, data)], Task(pc, data))
\* the handler of task i goes on to its next store call and awaits it
Goto(i, pc, data) == [tasks EXCEPT ![i] = Task(pc, data)]
Awaits(i, pc) == i \in 1..Len(tasks) /\ tasks[i].pc = pc /\ ~tasks[i].orphan
Pending(pc) == Cardinality({i \in 1..Len(tasks) : tasks[i].pc = pc})
Room == Len(tasks) < MaxTasks

(***************************************************************************)
(* loadProfile, loadAccounts and loadTrades, from the engine's result on.  *)
(***************************************************************************)
loadProfileValue(r) ==
    LET result == IF r = "ok" THEN selectProfile(profileTbl, ProfileId) ELSE <<>>
    IN  IF Len(result) > 0 THEN <<profileFromRow(result[1])>> ELSE <<>>

loadAccountsEnd(r, by) ==
    /\ accounts' = IF r = "ok"
                   THEN accountsFromRows(selectAccounts(accountsTbl))
                   ELSE accounts
    /\ last' = Settled("loadAccounts", by, r, loadAccountsRet(r), <<>>)

loadTradesEnd(r, by, accountId) ==
    /\ IF r = "ok"
       THEN \E rows \in selectTrades(tradesTbl, accountId) :
                trades' = tradesFromRows(rows)
       ELSE trades' = trades
    /\ last' = Settled("loadTrades", by, r, loadTradesRet(r), <<accountId>>)

(***************************************************************************)
(* Page load: init (initDB, loadProfile, loadAccounts, updateStats), then  *)
(* testDatabase, then the form listeners.  Were init to throw, the handler *)
(* would end there, the listeners never attached.                          *)
(***************************************************************************)
DOMContentLoaded ==
    /\ page = "fresh"
    /\ Room
    /\ \E plugin \in BOOLEAN :
         IF plugin
         THEN /\ tasks' = Append(tasks, Task("initDB", NoData))
              /\ page' = "loading"
              /\ alert' = <<>>
         ELSE \* initDB throws and alerts, init returns, testDatabase throws on
              \* Object.keys(db) and catches it: no store call is made
              /\ alert' = <<"Failed to initialize database: ", "SQL plugin not loaded">>
              /\ page' = "ready"
              /\ tasks' = tasks
    /\ last' = NoOp
    /\ UNCHANGED <<jsVars, tblVars, failures, reloads, saved, forms>>

InitDBDone(i) ==
    /\ Awaits(i, "initDB")
    /\ \E r \in Results("LoadFailed") :
         /\ Count(r)
         /\ IF r = "ok"
            THEN /\ db' = "open"
                 /\ tasks' = Goto(i, "loadProfile", NoData)
                 /\ page' = page
                 /\ alert' = <<>>
            ELSE /\ alert' = <<"Failed to initialize database: ", r>>
                 /\ page' = "ready"
                 /\ tasks' = Remove(i)
                 /\ db' = db
    /\ last' = NoOp
    /\ UNCHANGED <<currentProfile, currentAccount, accounts, trades, mainApp, shown,
                   tblVars, reloads, saved, forms>>

InitProfileDone(i) ==
    /\ Awaits(i, "loadProfile")
    /\ \E r \in Results("ReadFailed") :
         LET ret == loadProfileRet(r)
             profile == loadProfileValue(r) IN
         /\ Count(r)
         /\ last' = Settled("loadProfile", "loadProfile", r, ret,
                            IF ret = "ok" THEN profile ELSE <<>>)
         /\ IF ret # "ok"
            THEN /\ tasks' = Remove(i)
                 /\ UNCHANGED <<currentProfile, mainApp>>
            ELSE IF profile # <<>>
            THEN /\ currentProfile' = profile
                 /\ mainApp' = TRUE
                 /\ tasks' = Goto(i, "initAccounts", NoData)
            ELSE /\ tasks' = Goto(i, "testSelect", NoData)
                 /\ UNCHANGED <<currentProfile, mainApp>>
    /\ alert' = <<>>
    /\ UNCHANGED <<page, db, currentAccount, accounts, trades, shown, tblVars,
                   reloads, saved, forms>>

InitAccountsDone(i) ==
    /\ Awaits(i, "initAccounts")
    /\ \E r \in Results("ReadFailed") :
         /\ Count(r)
         /\ loadAccountsEnd(r, "initAccounts")
         /\ IF loadAccountsRet(r) # "ok"
            THEN tasks' = Remove(i) /\ shown' = shown
            ELSE /\ shown' = updateStats(trades, currentProfile, shown)
                 /\ tasks' = Goto(i, "testSelect", NoData)
    /\ alert' = <<>>
    /\ UNCHANGED <<page, db, currentProfile, currentAccount, trades, mainApp,
                   tblVars, reloads, saved, forms>>

TestSelectDone(i) ==
    /\ Awaits(i, "testSelect")
    /\ \E r \in Results("ReadFailed") :
         /\ Count(r)
         /\ IF r = "ok"
            THEN tasks' = Goto(i, "testInsert", NoData) /\ page' = page
            ELSE tasks' = Remove(i) /\ page' = "ready"
    /\ alert' = <<>>
    /\ last' = NoOp
    /\ UNCHANGED <<jsVars, tblVars, reloads, saved, forms>>

TestInsertDone(i) ==
    /\ Awaits(i, "testInsert")
    /\ \E r \in Results("WriteFailed") :
         /\ Count(r)
         /\ IF r = "ok"
            THEN /\ profileTbl' = InsertOrReplace(profileTbl, testRow)
                 /\ tasks' = Goto(i, "testCheck", NoData)
                 /\ page' = page
            ELSE /\ tasks' = Remove(i)
                 /\ page' = "ready"
                 /\ profileTbl' = profileTbl
    /\ alert' = <<>>
    /\ last' = NoOp
    /\ UNCHANGED <<jsVars, accountsTbl, tradesTbl, reloads, saved, forms>>

TestCheckDone(i) ==
    /\ Awaits(i, "testCheck")
    /\ \E r \in Results("ReadFailed") : Count(r)
    /\ tasks' = Remove(i)
    /\ page' = "ready"
    /\ alert' = <<>>
    /\ last' = NoOp
    /\ UNCHANGED <<jsVars, tblVars, reloads, saved, forms>>

(***************************************************************************)
(* The profile form.                                                       *)
(***************************************************************************)
ProfileSubmit(f) ==
    /\ page = "ready"
    /\ IF f.userName = "" \/ f.currency = ""
       THEN /\ alert' = <<"Failed to save profile: ", "Please fill in all required fields">>
            /\ tasks' = tasks
       ELSE IF db = "undefined"
       THEN /\ alert' = <<"Failed to save profile: ", "Database not initialized">>
            /\ tasks' = tasks
       ELSE /\ Room
            /\ tasks' = Append(tasks, Task("saveProfile", profileOf(f)))
            /\ alert' = <<>>
    /\ last' = NoOp
    /\ UNCHANGED <<page, jsVars, tblVars, failures, reloads, saved, forms>>

SaveProfileDone(i) ==
    /\ Awaits(i, "saveProfile")
    /\ \E r \in Results("WriteFailed") :
         LET profile == tasks[i].data
             ret == saveProfileRet(r) IN
         /\ Count(r)
         /\ last' = Settled("saveProfile", "saveProfile", r, ret, <<>>)
         /\ profileTbl' = IF r = "ok"
                          THEN InsertOrReplace(profileTbl, profileRow(profile))
                          ELSE profileTbl
         /\ saved' = IF r = "ok" THEN <<profile>> ELSE saved
         /\ IF ret = "ok"
            THEN /\ currentProfile' = <<profile>>
                 /\ mainApp' = TRUE
                 /\ tasks' = Goto(i, "profileAccounts", NoData)
                 /\ alert' = <<>>
            ELSE /\ alert' = <<"Failed to save profile: ", ret>>
                 /\ tasks' = Remove(i)
                 /\ UNCHANGED <<currentProfile, mainApp>>
    /\ UNCHANGED <<page, db, currentAccount, accounts, trades, shown, accountsTbl,
                   tradesTbl, reloads, forms>>

ProfileAccountsDone(i) ==
    /\ Awaits(i, "profileAccounts")
    /\ \E r \in Results("ReadFailed") :
         /\ Count(r)
         /\ loadAccountsEnd(r, "profileAccounts")
         /\ alert' = IF loadAccountsRet(r) # "ok"
                     THEN <<"Failed to save profile: ", loadAccountsRet(r)>>
                     ELSE <<>>
    /\ tasks' = Remove(i)
    /\ UNCHANGED <<page, db, currentProfile, currentAccount, trades, mainApp, shown,
                   tblVars, reloads, saved, forms>>

(***************************************************************************)
(* The account form.                                                       *)
(***************************************************************************)
AccountSubmit(f) ==
    /\ page = "ready"
    /\ IF db = "undefined"
       THEN \* db.execute on undefined throws in saveAccount, the handler alerts
            \* what saveAccount lets through
            LET ret == saveAccountRet("TypeError") IN
            /\ alert' = IF ret # "ok" THEN <<"Failed to save account: ", ret>> ELSE <<>>
            /\ tasks' = tasks
       ELSE /\ Room
            /\ Len(accountsTbl) + Pending("saveAccount") < MaxAccounts
            /\ tasks' = Append(tasks, Task("saveAccount", accountOf(f)))
            /\ alert' = <<>>
    /\ last' = NoOp
    /\ UNCHANGED <<page, jsVars, tblVars, failures, reloads, saved, forms>>

SaveAccountDone(i) ==
    /\ Awaits(i, "saveAccount")
    /\ \E r \in Results("WriteFailed") :
         LET ret == saveAccountRet(r) IN
         /\ Count(r)
         /\ last' = Settled("saveAccount", "saveAccount", r, ret, <<>>)
         /\ accountsTbl' =
              IF r = "ok"
              THEN insertAccount(accountsTbl, tasks[i].data)
              ELSE accountsTbl
         /\ IF ret = "ok"
            THEN /\ tasks' = Goto(i, "accountAccounts", NoData)
                 /\ alert' = <<>>
            ELSE /\ alert' = <<"Failed to save account: ", ret>>
                 /\ tasks' = Remove(i)
    /\ UNCHANGED <<page, jsVars, profileTbl, tradesTbl, reloads, saved, forms>>

AccountAccountsDone(i) ==
    /\ Awaits(i, "accountAccounts")
    /\ \E r \in Results("ReadFailed") :
         /\ Count(r)
         /\ loadAccountsEnd(r, "accountAccounts")
         /\ alert' = IF loadAccountsRet(r) # "ok"
                     THEN <<"Failed to save account: ", loadAccountsRet(r)>>
                     ELSE <<>>
    /\ tasks' = Remove(i)
    /\ UNCHANGED <<page, db, currentProfile, currentAccount, trades, mainApp, shown,
                   tblVars, reloads, saved, forms>>

(***************************************************************************)
(* selectAccount(id), the onclick of an account card.                      *)
(***************************************************************************)
SelectAccount(id) ==
    /\ page # "fresh"
    /\ currentAccount' = findAccount(accounts, id)
    /\ IF db = "undefined"
       THEN \* db.select on undefined throws inside loadTrades, which catches it
            tasks' = tasks
       ELSE /\ Room
            /\ tasks' = Append(tasks, Task("selectTrades", id))
    /\ alert' = <<>>
    /\ last' = NoOp
    /\ UNCHANGED <<page, db, currentProfile, accounts, trades, mainApp, shown,
                   tblVars, failures, reloads, saved, forms>>

SelectTradesDone(i) ==
    /\ Awaits(i, "selectTrades")
    /\ \E r \in Results("ReadFailed") :
         /\ Count(r)
         /\ loadTradesEnd(r, "selectTrades", tasks[i].data)
    /\ tasks' = Remove(i)
    /\ alert' = <<>>
    /\ UNCHANGED <<page, db, currentProfile, currentAccount, accounts, mainApp, shown,
                   tblVars, reloads, saved, forms>>

(***************************************************************************)
(* The trade form.                                                         *)
(***************************************************************************)
TradeSubmit(f, now) ==
    /\ page = "ready"
    /\ IF currentAccount = <<>>
       THEN /\ alert' = <<"Please select an account first", "">>
            /\ tasks' = tasks
       ELSE /\ Room
            /\ Len(tradesTbl) + Pending("saveTrade") < MaxTrades
            /\ tasks' = Append(tasks,
                   Task("saveTrade",
                        [trade |-> tradeOf(f, currentAccount[1].id, now), form |-> f]))
            /\ alert' = <<>>
    /\ last' = NoOp
    /\ UNCHANGED <<page, jsVars, tblVars, failures, reloads, saved, forms>>

SaveTradeDone(i) ==
    /\ Awaits(i, "saveTrade")
    /\ \E r \in Results("WriteFailed") :
         LET ret == saveTradeRet(r) IN
         /\ Count(r)
         /\ last' = Settled("saveTrade", "saveTrade", r, ret, <<>>)
         /\ tradesTbl' =
              IF r = "ok"
              THEN insertTrade(tradesTbl, tasks[i].data.trade)
              ELSE tradesTbl
         /\ forms' = IF r = "ok" THEN Append(forms, tasks[i].data.form) ELSE forms
         /\ IF ret # "ok"
            THEN /\ alert' = <<"Failed to save trade: ", ret>>
                 /\ tasks' = Remove(i)
            ELSE IF currentAccount = <<>>
            THEN \* currentAccount.id throws, the handler alerts
                 /\ alert' = <<"Failed to save trade: ", "TypeError">>
                 /\ tasks' = Remove(i)
            ELSE /\ tasks' = Goto(i, "tradeTrades", currentAccount[1].id)
                 /\ alert' = <<>>
    /\ UNCHANGED <<page, jsVars, profileTbl, accountsTbl, reloads, saved>>

TradeTradesDone(i) ==
    /\ Awaits(i, "tradeTrades")
    /\ \E r \in Results("ReadFailed") :
         /\ Count(r)
         /\ loadTradesEnd(r, "tradeTrades", tasks[i].data)
         /\ IF loadTradesRet(r) # "ok"
            THEN /\ alert' = <<"Failed to save trade: ", loadTradesRet(r)>>
                 /\ shown' = shown
            ELSE /\ shown' = updateStats(trades', currentProfile, shown)
                 /\ alert' = IF updateStatsThrows(trades', currentProfile)
                             THEN <<"Failed to save trade: ", "TypeError">>
                             ELSE <<>>
    /\ tasks' = Remove(i)
    /\ UNCHANGED <<page, db, currentProfile, currentAccount, accounts, mainApp,
                   tblVars, reloads, saved, forms>>

(***************************************************************************)
(* The page is reloaded: the script's variables start anew, the tables     *)
(* stay.  A write already handed to the engine is still carried out (or    *)
(* lost); nothing awaits it any more.                                      *)
(***************************************************************************)
IsWrite(t) == t.pc \in {"saveProfile", "saveAccount", "saveTrade", "testInsert"}

Reload ==
    /\ reloads < MaxReloads
    /\ page # "fresh"
    /\ reloads' = reloads + 1
    /\ page' = "fresh"
    /\ db' = "undefined"
    /\ currentProfile' = <<>>
    /\ currentAccount' = <<>>
    /\ accounts' = <<>>
    /\ trades' = <<>>
    /\ mainApp' = FALSE
    /\ shown' = <<>>
    /\ alert' = <<>>
    /\ last' = NoOp
    /\ tasks' = LET writes == SelectSeq(tasks, IsWrite)
                IN  [j \in 1..Len(writes) |-> [writes[j] EXCEPT !.orphan = TRUE]]
    /\ UNCHANGED <<tblVars, failures, saved, forms>>

OrphanDone(i) ==
    /\ i \in 1..Len(tasks)
    /\ tasks[i].orphan
    /\ tasks' = Remove(i)
    /\ \E done \in BOOLEAN :
         LET t == tasks[i] IN
         /\ profileTbl' =
              IF done /\ t.pc = "saveProfile"
              THEN InsertOrReplace(profileTbl, profileRow(t.data))
              ELSE IF done /\ t.pc = "testInsert"
              THEN InsertOrReplace(profileTbl, testRow)
              ELSE profileTbl
         /\ saved' = IF done /\ t.pc = "saveProfile" THEN <<t.data>> ELSE saved
         /\ accountsTbl' =
              IF done /\ t.pc = "saveAccount"
              THEN insertAccount(accountsTbl, t.data)
              ELSE accountsTbl
         /\ tradesTbl' =
              IF done /\ t.pc = "saveTrade"
              THEN insertTrade(tradesTbl, t.data.trade)
              ELSE tradesTbl
         /\ forms' = IF done /\ t.pc = "saveTrade" THEN Append(forms, t.data.form)
                     ELSE forms
    /\ alert' = <<>>
    /\ last' = NoOp
    /\ UNCHANGED <<page, jsVars, failures, reloads>>

(***************************************************************************)
(* The application.                                                        *)
(***************************************************************************)
Next ==
    \/ DOMContentLoaded
    \/ \E i \in 1..MaxTasks :
         \/ InitDBDone(i)
         \/ InitProfileDone(i)
         \/ InitAccountsDone(i)
         \/ TestSelectDone(i)
         \/ TestInsertDone(i)
         \/ TestCheckDone(i)
         \/ SaveProfileDone(i)
         \/ ProfileAccountsDone(i)
         \/ SaveAccountDone(i)
         \/ AccountAccountsDone(i)
         \/ SelectTradesDone(i)
         \/ SaveTradeDone(i)
         \/ TradeTradesDone(i)
         \/ OrphanDone(i)
    \/ \E f \in ProfileInputs : ProfileSubmit(f)
    \/ \E f \in AccountForms : AccountSubmit(f)
    \/ \E id \in 1..MaxAccounts : SelectAccount(id)
    \/ \E f \in TradeForms, now \in Instants : TradeSubmit(f, now)
    \/ Reload

Spec == Init /\ [][Next]_vars

(***************************************************************************)
(* The profile alone: page load, the profile form with the wider choice of *)
(* inputs, reload.                                                         *)
(***************************************************************************)
NextProfile ==
    \/ DOMContentLoaded
    \/ \E i \in 1..MaxTasks :
         \/ InitDBDone(i)
         \/ InitProfileDone(i)
         \/ InitAccountsDone(i)
         \/ TestSelectDone(i)
         \/ TestInsertDone(i)
         \/ TestCheckDone(i)
         \/ SaveProfileDone(i)
         \/ ProfileAccountsDone(i)
         \/ OrphanDone(i)
    \/ \E f \in ProfileChoices : ProfileSubmit(f)
    \/ Reload

SpecProfile == Init /\ [][NextProfile]_vars

(***************************************************************************)
(* One account's trades alone, with the wider choice of trade forms: from  *)
(* the state in which Ann has made the account Main and selected it.       *)
(***************************************************************************)
Ann == profileOf([userName |-> "Ann", currency |-> "USD"])
MainRow == accountRow(1, accountOf(MainForm))

MainSelected ==
    /\ page = "ready"
    /\ db = "open"
    /\ currentProfile = <<Ann>>
    /\ currentAccount = <<accountFromRow(MainRow)>>
    /\ accounts = <<accountFromRow(MainRow)>>
    /\ trades = <<>>
    /\ mainApp = TRUE
    /\ shown = <<>>
    /\ alert = <<>>
    /\ profileTbl = {profileRow(Ann), testRow}
    /\ accountsTbl = <<MainRow>>
    /\ tradesTbl = <<>>
    /\ tasks = <<>>
    /\ last = Settled("loadTrades", "selectTrades", "ok", "ok", <<1>>)
    /\ failures = 0
    /\ reloads = 0
    /\ saved = <<Ann>>
    /\ forms = <<>>

NextRound ==
    \/ \E f \in RoundForms, now \in Instants : TradeSubmit(f, now)
    \/ \E i \in 1..MaxTasks :
         \/ SaveTradeDone(i)
         \/ TradeTradesDone(i)

SpecRound == MainSelected /\ [][NextRound]_vars

(***************************************************************************)
(* The accounts and their trades, with the wider choice of account forms:  *)
(* from the state in which Ann has saved her profile on the first run.     *)
(***************************************************************************)
ProfileSaved ==
    /\ page = "ready"
    /\ db = "open"
    /\ currentProfile = <<Ann>>
    /\ currentAccount = <<>>
    /\ accounts = <<>>
    /\ trades = <<>>
    /\ mainApp = TRUE
    /\ shown = <<>>
    /\ alert = <<>>
    /\ profileTbl = {profileRow(Ann), testRow}
    /\ accountsTbl = <<>>
    /\ tradesTbl = <<>>
    /\ tasks = <<>>
    /\ last = Settled("loadAccounts", "profileAccounts", "ok", "ok", <<>>)
    /\ failures = 0
    /\ reloads = 0
    /\ saved = <<Ann>>
    /\ forms = <<>>

NextLedger ==
    \/ \E f \in AccountChoices : AccountSubmit(f)
    \/ \E id \in 1..MaxAccounts : SelectAccount(id)
    \/ \E f \in TradeForms, now \in Instants : TradeSubmit(f, now)
    \/ \E i \in 1..MaxTasks :
         \/ SaveAccountDone(i)
         \/ AccountAccountsDone(i)
         \/ SelectTradesDone(i)
         \/ SaveTradeDone(i)
         \/ TradeTradesDone(i)

SpecLedger == ProfileSaved /\ [][NextLedger]_vars

(***************************************************************************)
(* The application started again on a journal that holds Ann's profile,    *)
(* the account Main and one trade of it: page load, account selection and  *)
(* the trade form.                                                         *)
(***************************************************************************)
StoredTrade == tradeRow(1, tradeOf(OpenForm, 1, 9))

Restarted ==
    /\ page = "fresh"
    /\ db = "undefined"
    /\ currentProfile = <<>>
    /\ currentAccount = <<>>
    /\ accounts = <<>>
    /\ trades = <<>>
    /\ mainApp = FALSE
    /\ shown = <<>>
    /\ alert = <<>>
    /\ profileTbl = {profileRow(Ann), testRow}
    /\ accountsTbl = <<MainRow>>
    /\ tradesTbl = <<StoredTrade>>
    /\ tasks = <<>>
    /\ last = NoOp
    /\ failures = 0
    /\ reloads = MaxReloads
    /\ saved = <<Ann>>
    /\ forms = <<OpenForm>>

NextRestart ==
    \/ DOMContentLoaded
    \/ \E i \in 1..MaxTasks :
         \/ InitDBDone(i)
         \/ InitProfileDone(i)
         \/ InitAccountsDone(i)
         \/ TestSelectDone(i)
         \/ TestInsertDone(i)
         \/ TestCheckDone(i)
         \/ SelectTradesDone(i)
         \/ SaveTradeDone(i)
         \/ TradeTradesDone(i)
    \/ \E id \in 1..MaxAccounts : SelectAccount(id)
    \/ \E f \in TradeForms, now \in Instants : TradeSubmit(f, now)

SpecRestart == Restarted /\ [][NextRestart]_vars

(***************************************************************************)
(* updateStats alone, on every trade collection of up to MaxStatLen trades *)
(* of three profits and two volumes, with and without a profile.           *)
(***************************************************************************)
StatTrades ==
    { tradeFromRow(tradeRow(1, tradeOf([FullForm EXCEPT !.profit = p, !.volume = v],
                                       1, 9))) :
        p \in {"-20", "0", "50"}, v \in {"1", "2"} }

StatCollections == UNION {[1..n -> StatTrades] : n \in 0..MaxStatLen}

InitStats ==
    /\ page = "ready"
    /\ db = "open"
    /\ currentProfile \in {<<>>, <<Ann>>}
    /\ currentAccount = <<>>
    /\ accounts = <<>>
    /\ trades \in StatCollections
    /\ mainApp = (currentProfile # <<>>)
    /\ shown = <<>>
    /\ alert = <<>>
    /\ profileTbl = {}
    /\ accountsTbl = <<>>
    /\ tradesTbl = <<>>
    /\ tasks = <<>>
    /\ last = NoOp
    /\ failures = 0
    /\ reloads = 0
    /\ saved = <<>>
    /\ forms = <<>>

UpdateStatsRun ==
    /\ last = NoOp
    /\ shown' = updateStats(trades, currentProfile, shown)
    /\ last' = Settled("updateStats", "updateStats", "ok",
                       IF updateStatsThrows(trades, currentProfile)
                       THEN "TypeError" ELSE "ok", <<>>)
    /\ UNCHANGED <<page, db, currentProfile, currentAccount, accounts, trades, mainApp,
                   alert, tblVars, tasks, failures, reloads, saved, forms>>

SpecStats == InitStats /\ [][UpdateStatsRun]_vars

(***************************************************************************)
(* The claims.                                                             *)
(***************************************************************************)

\* C1 (as claimed): in every reachable state the profile table holds at
\* most one row.
C1_AtMostOneRow == Cardinality(profileTbl) <= 1

\* the row of id 1 is the one the most recent successful save wrote
C2_StoredIsLast ==
    saved # <<>> =>
        /\ Cardinality({r \in profileTbl : r.id = ProfileId}) = 1
        /\ \A r \in profileTbl :
             r.id = ProfileId => r.name = saved[1].name /\ r.currency = saved[1].currency
\* a loadProfile whose read succeeds returns what that save was given
C2_LoadedIsLast ==
    (last.op = "loadProfile" /\ last.engine = "ok" /\ saved # <<>>) => last.value = saved
\* a successful save of the profile already stored changes no row
C2_SameAgain ==
    (last'.op = "saveProfile" /\ last'.engine = "ok" /\ saved' = saved)
        => profileTbl' = profileTbl

\* C2: once a saveProfile has succeeded, the profile table holds exactly one
\* row of id 1 and it carries the name and currency of the most recent
\* successful save; a loadProfile whose read succeeds returns exactly that
\* name and currency; and a successful save of the profile already stored
\* leaves the table as it was.
C2_LastSaveWins == [](C2_StoredIsLast /\ C2_LoadedIsLast) /\ [][C2_SameAgain]_vars

\* C2 witness: a page load reads back a profile saved with the currency EUR.
C2_Witness ==
    /\ last.op = "loadProfile"
    /\ last.engine = "ok"
    /\ last.value # <<>>
    /\ last.value = saved
    /\ last.value[1].currency = "EUR"

\* C3: when loadAccounts' read succeeds, the loaded accounts are the rows of
\* the accounts table, every row once, the last inserted first, with ids
\* strictly descending.
C3_ReverseInsertionOrder ==
    (last.op = "loadAccounts" /\ last.engine = "ok") =>
        LET n == Len(accountsTbl) IN
        /\ Len(accounts) = n
        /\ \A i \in 1..n :
             /\ accounts[i].id = accountsTbl[n + 1 - i].id
             /\ accounts[i].name = accountsTbl[n + 1 - i].name
             /\ accounts[i].broker = accountsTbl[n + 1 - i].broker
        /\ \A i \in 1..n : \A j \in (i + 1)..n : accounts[i].id > accounts[j].id

\* C3 witness: loadAccounts has loaded two accounts.
C3_Witness ==
    /\ last.op = "loadAccounts"
    /\ last.engine = "ok"
    /\ Len(accounts) = 2
    /\ Len(accountsTbl) = 2

\* C4: when the read of loadTrades(accountId) succeeds, the loaded trades
\* are the rows of the trades table whose account_id is accountId, every
\* such row once and no other, a trade never before one of a later date.
C4_OwnTradesByDate ==
    (last.op = "loadTrades" /\ last.engine = "ok") =>
        LET accountId == last.value[1]
            own == {k \in 1..Len(tradesTbl) : tradesTbl[k].account_id = accountId}
        IN  /\ Len(trades) = Cardinality(own)
            /\ \A i \in 1..Len(trades) : trades[i].accountId = accountId
            /\ \A k \in own : \E i \in 1..Len(trades) : trades[i].id = tradesTbl[k].id
            /\ \A i \in 1..Len(trades) : \A j \in (i + 1)..Len(trades) :
                 /\ trades[i].id # trades[j].id
                 /\ dateTime(trades[i].date) >= dateTime(trades[j].date)

\* C4 witness: two trades of one account are loaded, the one inserted
\* second (of the earlier date) after the one inserted first.
C4_Witness ==
    /\ last.op = "loadTrades"
    /\ last.engine = "ok"
    /\ Len(trades) = 2
    /\ trades[1].id < trades[2].id
    /\ dateTime(trades[1].date) > dateTime(trades[2].date)

\* C5 (as claimed): whenever the engine fails a read or a write, the store
\* operation that issued it fails to its caller with that same error, and
\* loadProfile returns absent only when its read succeeded with no row.
C5_EveryErrorSurfaces ==
    /\ last.engine # "ok" => last.ret = last.engine
    /\ (last.op = "loadProfile" /\ last.ret = "ok" /\ last.value = <<>>)
           => (last.engine = "ok" /\ selectProfile(profileTbl, ProfileId) = <<>>)

\* C6: a step in which updateStats runs on an empty trade collection (at the
\* end of init, or at the end of a trade submission) leaves the four
\* statistics texts as they were.
C6_EmptyLeavesStats ==
    [][(last'.by \in {"initAccounts", "tradeTrades"} /\ last'.ret = "ok"
          /\ trades' = <<>>) => shown' = shown]_vars

\* C6 witness: a trade submission has run updateStats on an empty collection
\* while statistics of an earlier collection are shown.
C6_Witness ==
    /\ last.by = "tradeTrades"
    /\ trades = <<>>
    /\ shown # <<>>

\* C7: after updateStats has run on a non-empty collection with a profile
\* set, totalPnL shows the sum of the profits (to two decimals), the trade
\* count the number of trades, totalVolume the sum of the volumes and
\* winRate the tenth of a percent nearest 100 * wins / trades, a win being a
\* profit above 0; with no profile set it throws before it writes anything.
C7_Aggregates ==
    (last.op = "updateStats" /\ trades # <<>>) =>
        IF currentProfile = <<>>
        THEN last.ret = "TypeError" /\ shown = <<>>
        ELSE LET n == Len(trades)
                 profit[i \in 0..n] == IF i = 0 THEN 0 ELSE profit[i - 1] + trades[i].profit.v
                 volume[i \in 0..n] == IF i = 0 THEN 0 ELSE volume[i - 1] + trades[i].volume.v
                 wins == Cardinality({i \in 1..n : trades[i].profit.v > 0})
                 off == shown[1].winRate * n - 1000 * wins
             IN  /\ shown # <<>>
                 /\ shown[1].totalPnL = <<currentProfile[1].currency, 100 * profit[n]>>
                 /\ shown[1].totalTrades = n
                 /\ shown[1].totalVolume = volume[n]
                 /\ 2 * off <= n /\ -2 * off <= n

\* C7 witness: updateStats has shown 33.3% for one win in three trades, one
\* of them of profit 0.
C7_Witness ==
    /\ last.op = "updateStats"
    /\ Len(trades) = 3
    /\ shown # <<>>
    /\ shown[1].winRate = 333
    /\ \E i \in 1..3 : trades[i].profit.v = 0

Unparseable(text) == parseFloat(text) = NaN

\* C8: a trade submitted with the exit price left empty is stored with a
\* NULL exit_price and loaded with exitPrice null; a trade submitted with no
\* parseable commission is stored and loaded with commission 0.
C8_AbsentExitZeroCommission ==
    /\ \A k \in 1..Len(tradesTbl) :
         /\ forms[k].exitPrice = "" => tradesTbl[k].exit_price = Null
         /\ Unparseable(forms[k].commission) => tradesTbl[k].commission = Num(0)
    /\ \A i \in 1..Len(trades) :
         /\ forms[trades[i].id].exitPrice = "" => trades[i].exitPrice = Null
         /\ Unparseable(forms[trades[i].id].commission) => trades[i].commission = Num(0)

\* C8 witness: a trade submitted with exit price and commission left empty
\* has been loaded.
C8_Witness ==
    \E i \in 1..Len(trades) :
        /\ forms[trades[i].id].exitPrice = ""
        /\ forms[trades[i].id].commission = ""
        /\ trades[i].exitPrice = Null
        /\ trades[i].commission = Num(0)

AllSupplied(f) == \A field \in DOMAIN f : f[field] # ""

\* C9 (as claimed): a trade submitted with every field supplied is loaded
\* with every field equal to what was submitted.
C9_RoundTrip ==
    \A i \in 1..Len(trades) :
        LET f == forms[trades[i].id] IN
        AllSupplied(f) =>
            /\ trades[i].symbol = f.symbol
            /\ trades[i].type = f.tradeType
            /\ trades[i].entryPrice = parseFloat(f.entryPrice)
            /\ trades[i].exitPrice = parseFloat(f.exitPrice)
            /\ trades[i].takeProfit = parseFloat(f.takeProfit)
            /\ trades[i].stopLoss = parseFloat(f.stopLoss)
            /\ trades[i].lotSize = parseFloat(f.lotSize)
            /\ trades[i].volume = parseFloat(f.volume)
            /\ trades[i].profit = parseFloat(f.profit)
            /\ trades[i].commission = parseFloat(f.commission)
            /\ trades[i].rrRatio = f.rrRatio
            /\ trades[i].strategy = f.strategy
            /\ trades[i].session = f.session
            /\ trades[i].duration = f.duration

\* C10: every row of the trades table has the account_id of a row of the
\* accounts table.
C10_TradesHaveAccounts ==
    \A k \in 1..Len(tradesTbl) :
        \E a \in 1..Len(accountsTbl) : accountsTbl[a].id = tradesTbl[k].account_id

\* C10 witness: trades of two accounts are stored.
C10_Witness ==
    /\ Len(tradesTbl) = 2
    /\ tradesTbl[1].account_id # tradesTbl[2].account_id

\* C11: every row of the accounts table has current_balance equal to its
\* initial_balance (both NULL when the balance typed was no number),
\* whatever trades have been stored against the account since.
C11_BalanceAsCreated ==
    \A a \in 1..Len(accountsTbl) :
        accountsTbl[a].current_balance = accountsTbl[a].initial_balance

\* C11 witness: an account of balance 1000 has a trade of profit -20 stored
\* against it, beside an account whose balance was left empty.
C11_Witness ==
    /\ \E a \in 1..Len(accountsTbl) :
         /\ accountsTbl[a].initial_balance = Num(1000)
         /\ \E k \in 1..Len(tradesTbl) :
              /\ tradesTbl[k].account_id = accountsTbl[a].id
              /\ tradesTbl[k].profit = Num(-20)
    /\ \E a \in 1..Len(accountsTbl) : accountsTbl[a].initial_balance = Null

\* C12: a row of the accounts or trades table stays in the table, with the
\* same id and the same field values, in every later state.
C12_AppendOnly ==
    [][/\ \A a \in 1..Len(accountsTbl) :
            Len(accountsTbl') >= a /\ accountsTbl'[a] = accountsTbl[a]
       /\ \A k \in 1..Len(tradesTbl) :
            Len(tradesTbl') >= k /\ tradesTbl'[k] = tradesTbl[k]]_vars

\* C12 witness: two accounts and two trades are stored and the page has
\* been reloaded since.
C12_Witness ==
    /\ Len(accountsTbl) = 2
    /\ Len(tradesTbl) = 2
    /\ reloads = 1
    /\ page = "ready"

\* C13 (as claimed): at most one store call is outstanding at any moment,
\* whenever the user's events arrive.
C13_OneOutstanding == Len(tasks) <= 1

\* a step taken by the user: a page load or reload, a form submitted, an
\* account card clicked
UserEvent ==
    \/ DOMContentLoaded
    \/ Reload
    \/ \E f \in ProfileInputs : ProfileSubmit(f)
    \/ \E f \in AccountForms : AccountSubmit(f)
    \/ \E id \in 1..MaxAccounts : SelectAccount(id)
    \/ \E f \in TradeForms, now \in Instants : TradeSubmit(f, now)

\* C13 (amended): as long as every event of the user arrives when no handler
\* is suspended on a store call, at most one store call is outstanding at
\* any moment: an event issues at most one call and the completion of a call
\* issues at most one further call in its place.  (An event that arrives
\* while a handler is suspended adds a call of its own.)
C13_OneWhenApart ==
    [][(Len(tasks) <= 1 /\ (UserEvent => tasks = <<>>)) => Len(tasks') <= 1]_vars

\* C13 witness: the trade form's handler, its saveTrade completed, is
\* suspended on loadTrades, the one call outstanding.
C13_Witness ==
    /\ Len(tasks) = 1
    /\ tasks[1].pc = "tradeTrades"
    /\ last.op = "saveTrade"

\* C14 (as claimed): whenever no handler is suspended on a store call and an
\* account is selected, every loaded trade has the accountId of the
\* selected account.
C14_TradesOfSelected ==
    (tasks = <<>> /\ currentAccount # <<>>) =>
        \A i \in 1..Len(trades) : trades[i].accountId = currentAccount[1].id

\* C15 (as claimed): whenever no handler is in progress and the loaded trade
\* collection is not empty, the four statistics shown are the aggregates of
\* the loaded trades.
C15_StatsOfLoaded ==
    (tasks = <<>> /\ trades # <<>>) =>
        /\ shown # <<>>
        /\ LET stats == statsOf(trades, [currency |-> ""]) IN
             /\ shown[1].totalPnL[2] = stats.totalPnL[2]
             /\ shown[1].totalTrades = stats.totalTrades
             /\ shown[1].winRate = stats.winRate
             /\ shown[1].totalVolume = stats.totalVolume

\* no account is selected: currentAccount is null or undefined, or is no
\* account of the loaded list
NoAccountSelected ==
    \/ currentAccount = <<>>
    \/ \A i \in 1..Len(accounts) : accounts[i].id # currentAccount[1].id

\* C16: a trade form submitted while no account is selected (also after
\* selectAccount was called with an id that is not in the loaded list)
\* issues no store call, leaves the trades table, the loaded trades and the
\* statistics shown as they were, and asks for an account to be selected.
C16_NoWriteUnselected ==
    [][(NoAccountSelected /\ \E f \in TradeForms, now \in Instants : TradeSubmit(f, now))
         => /\ tasks' = tasks
            /\ tradesTbl' = tradesTbl
            /\ trades' = trades
            /\ shown' = shown
            /\ alert' = <<"Please select an account first", "">>]_vars

\* C16 witness: the trade form has been refused while trades of an account
\* selected earlier are still loaded and shown (selectAccount was since
\* called with an id that is not loaded).
C16_Witness ==
    /\ alert = <<"Please select an account first", "">>
    /\ currentAccount = <<>>
    /\ accounts # <<>>
    /\ trades # <<>>
    /\ shown # <<>>

\* database initialization has failed: the page is loaded, its listeners
\* attached, and the storage handle was not established
InitFailed == page = "ready" /\ db = "undefined"

FormSubmit ==
    \/ \E f \in ProfileInputs : ProfileSubmit(f)
    \/ \E f \in AccountForms : AccountSubmit(f)
    \/ \E f \in TradeForms, now \in Instants : TradeSubmit(f, now)

\* after the failure currentProfile is null, the main view is not shown and
\* no handler of this page has a store call outstanding
C17_NothingOpens ==
    InitFailed =>
        /\ currentProfile = <<>>
        /\ ~mainApp
        /\ \A i \in 1..Len(tasks) : tasks[i].orphan
\* it lasts until the page is loaded again; every form submission ends in
\* an alert and issues no store call; the tables change only by a write
\* that was outstanding when an earlier page was left
C17_NothingWritten ==
    InitFailed =>
        /\ InitFailed' \/ page' = "fresh"
        /\ FormSubmit => (alert' # <<>> /\ tasks' = tasks)
        /\ (\A i \in 1..Len(tasks) : ~tasks[i].orphan)
              => <<profileTbl, accountsTbl, tradesTbl>>' = <<profileTbl, accountsTbl, tradesTbl>>

\* C17: once database initialization has failed, and until the page is
\* loaded again, no store write issued by the page succeeds (none is
\* issued), every form submission ends in an alert, currentProfile stays
\* null and the main view is never shown.
C17_InitFailureIsFinal == []C17_NothingOpens /\ [][C17_NothingWritten]_vars

\* C17 witness: after the failure the account form has been submitted and
\* has ended in its alert.
C17_Witness ==
    /\ InitFailed
    /\ alert = <<"Failed to save account: ", "TypeError">>
    /\ accountsTbl = <<>>

\* C18 (as claimed): currentProfile is not null whenever the main view is
\* active, whenever renderAccounts has a non-empty account list to render
\* and whenever updateStats has a non-empty trade collection to show.
C18_ProfileWhenRendered ==
    /\ mainApp => currentProfile # <<>>
    /\ (last.op = "loadAccounts" /\ last.engine = "ok" /\ accounts # <<>>)
          => currentProfile # <<>>
    /\ (last.by \in {"initAccounts", "tradeTrades"} /\ last.ret = "ok" /\ trades # <<>>)
          => currentProfile # <<>>

====
